---- MODULE Spec2Model ----
(***************************************************************************)
(* Model of the request pipeline of spoti-py: HTTPClient.request with its  *)
(* credential resolution and retry loop, in the two variants found in the  *)
(* repository (src/spotipy/http.py and src/aiospotify/http.py), and the    *)
(* credentials objects of src/spotipy/objects/credentials.py.              *)
(*                                                                         *)
(* The library runs on asyncio: a coroutine runs without interruption      *)
(* between two awaits, so every action below is one such stretch of a      *)
(* call of request(), from one suspension point to the next.               *)
(***************************************************************************)
EXTENDS Integers, Sequences, FiniteSets, TLC

\* ------------------------------------------------------------------------
\* Bounds of the model
\* ------------------------------------------------------------------------
MaxRetryAfter == 2      \* largest Retry-After value the server sends
MaxBody == 2            \* number of distinct response bodies
MaxExpiresIn == 2       \* largest expires_in the token endpoint grants
MaxTime == 2            \* last value of the clock
MaxGrants == 3          \* number of token-endpoint calls followed
MaxCalls == 2           \* calls of request() followed
MaxGateCalls == 3       \* calls of request() followed in SpecGate
MaxLimited == 2         \* API calls the server may answer 429 in SpecGate
MaxTotal == 201         \* largest number of items the server holds for one listing
MaxExcess == 2          \* ids passed to a batch endpoint beyond its maximum
TokenLifetime == 3600   \* expires_in of the tokens asked about in SpecExpiry
MaxDrift == 5           \* seconds followed on either side of the expiry
MaxCatalogue == 3       \* distinct ids a caller may ask for
MaxBatch == 3           \* ids passed to one get-several method of Client
MaxChange == 1          \* items a listing gains or loses while a helper pages it

None == -1
UserCred == 0           \* heap id of the caller's UserCredentials object
Procs == {"p1", "p2"}   \* concurrent callers of request()   (SpecCred)
RetryProcs == {"p1"}    \* the single caller followed in SpecRetry
Impls == {"spotipy", "aiospotify"}
CredIds == 0..MaxGrants \* heap ids: 0 the user object, k the object built from grant k

\* statuses the API server answers with
AllStatuses == {200, 204, 206, 400, 401, 403, 404, 405, 413, 429, 500, 501, 502, 503, 504}
OkStatuses == {200}
\* errno values of the OSErrors the transport raises (104: ECONNRESET on Linux)
Errnos == {54, 104, 10054}
ContentTypes == {"application/json", "text/plain"}

VARIABLES
    impl,             \* which HTTPClient the run is about
    now,              \* time.time()
    session,          \* HTTPClient._session (None or the id of the session)
    sessionsCreated,  \* number of aiohttp.ClientSession() constructions
    credentials,      \* HTTPClient._credentials / _client_credentials (None or heap id)
    creds,            \* heap of credentials objects
    lastGrant,        \* per object, the grant response it was last built/refreshed from
    grants,           \* number of POSTs the token endpoint has received
    httpCalls,        \* number of requests the API server has received
    request_lock,     \* HTTPClient._request_lock (asyncio.Event), TRUE = set
    req,              \* per caller, the frame of its call of request()
    calls,            \* number of calls of request() made so far
    closed,           \* the sessions that close() has closed
    op                \* the call of a Client method or of an endpoint method

vars == <<impl, now, session, sessionsCreated, credentials, creds, lastGrant,
          grants, httpCalls, request_lock, req, calls, closed, op>>

\* ------------------------------------------------------------------------
\* Values
\* ------------------------------------------------------------------------
\* the value given to a key that a JSON document lacks
Missing == ""
NoCred == [kind |-> "none", access_token |-> None, token_type |-> "",
           expires_in |-> 0, last_authorized_time |-> 0, refresh_token |-> None]
NoGrant == [serial |-> None, access_token |-> None, token_type |-> "",
            expires_in |-> 0, at |-> 0]
NoResponse == [id |-> 0, status |-> 0, retry_after |-> None, text |-> 0, ctype |-> ""]
NoData == [fmt |-> "none", v |-> 0]
NoResult == [kind |-> "none", exc |-> "", id |-> 0, data |-> NoData,
             error |-> Missing, description |-> Missing]
\* what a call has read of a token response besides the token fields
NoReply == [error |-> Missing, error_description |-> Missing, refresh_token |-> None]
NoOp == [name |-> "", pc |-> "idle"]

IdleFrame == [pc |-> "idle", hint |-> None, cred |-> None, sawExpired |-> FALSE,
              token |-> None, serial |-> 0, posted |-> None, reply |-> NoReply,
              callId |-> 0, tries |-> 0,
              response |-> NoResponse, data |-> NoData, sleepKind |-> "",
              log |-> <<>>, result |-> NoResult]

\* events of a call's log
RespEvent(r) == [kind |-> "resp", n |-> r.status, id |-> r.id, ra |-> r.retry_after]
OSErrorEvent(errno, id) == [kind |-> "oserror", n |-> errno, id |-> id, ra |-> None]
SleepEvent(d) == [kind |-> "sleep", n |-> d, id |-> 0, ra |-> None]

\* ------------------------------------------------------------------------
\* Pure parts of the code
\* ------------------------------------------------------------------------
MaxTriesMut(im) == 5
\* for tries in range(4) / range(3)
MaxTries(im) == IF im = "spotipy" THEN 4 ELSE 3

\* utilities.json_or_text: the parsed document when the content type is JSON,
\* the text otherwise (the server is taken to send well-formed JSON)
json_or_text(r) ==
    IF r.ctype \in {"application/json", "application/json; charset=utf-8"}
    THEN [fmt |-> "dict", v |-> r.text]
    ELSE [fmt |-> "str", v |-> r.text]

\* data of the RequestEntityTooLarge raised for a 413
TooLargeData == [fmt |-> "dict", v |-> 413]

IsSuccessMut(im, status) ==
    IF im = "spotipy" THEN status = 200 ELSE status \in {200, 201, 202}
\* 200 <= status < 300 (spotipy); case 200 | 201 | 202 | 204 (aiospotify)
IsSuccess(im, status) ==
    IF im = "spotipy" THEN 200 <= status /\ status < 300
    ELSE status \in {200, 201, 202, 204}

HTTPErrorMappingMut(status) ==
    CASE status = 400 -> "BadRequest"
      [] status = 401 -> "Unauthorized"
      [] status = 403 -> "Forbidden"
      [] status = 404 -> "Forbidden"
      [] OTHER -> ""
\* errors.HTTPErrorMapping; the four case arms of aiospotify ("" = no entry)
HTTPErrorMapping(status) ==
    CASE status = 400 -> "BadRequest"
      [] status = 401 -> "Unauthorized"
      [] status = 403 -> "Forbidden"
      [] status = 404 -> "NotFound"
      [] OTHER -> ""

IsRateLimitedMut(status) == FALSE
\* elif status == 429 / case 429
IsRateLimited(status) == status = 429

RetryAfterDelayMut(r) == 1
\* int(response.headers["Retry-After"]) / float(...)
RetryAfterDelay(r) == r.retry_after

IsRetriedServerErrorMut(status) == status >= 500
\* elif status in {500, 502, 503} / case 500 | 502 | 503
IsRetriedServerError(status) == status \in {500, 502, 503}

BackoffDelayMut(tries) == 1 + tries
\* asyncio.sleep(1 + tries * 2)
BackoffDelay(tries) == 1 + tries * 2

RetryOSErrorMut(im, tries, errno) == tries < MaxTries(im) /\ errno \in {54, 10054}
\* if tries < 3 and error.errno in (54, 10054)   (tries < 2 in aiospotify)
RetryOSError(im, tries, errno) == tries < MaxTries(im) - 1 /\ errno \in {54, 10054}

ExhaustedErrorMut(r) == "HTTPError"
\* the raise after the loop: SpotifyServerError for status >= 500, HTTPError otherwise
ExhaustedError(r) == IF r.status >= 500 THEN "SpotifyServerError" ELSE "HTTPError"

\* what one response leads to
Classify(im, status) ==
    IF IsSuccess(im, status) THEN "return"
    ELSE IF HTTPErrorMapping(status) # "" THEN "raise_mapped"
    ELSE IF status = 413 THEN "raise_413"
    ELSE IF IsRateLimited(status) THEN "retry_after"
    ELSE IF IsRetriedServerError(status) THEN "backoff"
    ELSE IF im = "aiospotify" THEN "fallthrough"
    ELSE IF status >= 500 THEN "raise_server"
    ELSE "raise_http"

is_expiredMut(c, t) == (t - c.last_authorized_time) > c.expires_in
\* ClientCredentials.is_expired / UserCredentials.is_expired
is_expired(c, t) == (t - c.last_authorized_time) >= c.expires_in

ChooseCredentialsMut(hint, slot) == slot
\* credentials = credentials or self._credentials
ChooseCredentials(hint, slot) == IF hint # None THEN hint ELSE slot

\* ClientCredentials.__init__: the fields of the response, stamped with time.time()
NewClientCredentials(data, t) ==
    [kind |-> "client", access_token |-> data.access_token,
     token_type |-> data.token_type, expires_in |-> data.expires_in,
     last_authorized_time |-> t, refresh_token |-> None]

ApplyGrantMut(c, data, t) ==
    [c EXCEPT !.access_token = data.access_token,
              !.token_type = data.token_type,
              !.last_authorized_time = t]
\* the assignments of refresh(): no await stands between them
ApplyGrant(c, data, t) ==
    [c EXCEPT !.access_token = data.access_token,
              !.token_type = data.token_type,
              !.expires_in = data.expires_in,
              !.last_authorized_time = t]

\* the error documents of the token endpoint
AuthErrors == {[error |-> "invalid_client", error_description |-> "Invalid client"],
               [error |-> "invalid_grant", error_description |-> "Invalid refresh token"]}

\* the JSON documents the token endpoint answers grant number k with: a
\* grant, with or without a new refresh token, or an error document
TokenResponses(k, lifetimes, errors, rotated) ==
    [error : {Missing}, error_description : {Missing}, access_token : {k},
     token_type : {"Bearer"}, expires_in : lifetimes, refresh_token : rotated]
    \cup
    { [error |-> e.error, error_description |-> e.error_description,
       access_token |-> None, token_type |-> Missing, expires_in |-> 0,
       refresh_token |-> None] : e \in errors }

GrantResponses(k, lifetimes) ==
    TokenResponses(k, lifetimes,
                   {[error |-> "invalid_client", error_description |-> "Invalid client"]},
                   {None})

HasErrorMut(data) == data.error = "invalid_grant"
\* if "error" in data
HasError(data) == data.error # Missing

ReplyOf(data) == [error |-> data.error, error_description |-> data.error_description,
                  refresh_token |-> data.refresh_token]

GrantRecord(k, data, t) ==
    [serial |-> k, access_token |-> data.access_token, token_type |-> data.token_type,
     expires_in |-> data.expires_in, at |-> t]

\* the responses the API server may give to call number id; only a 429 is
\* followed here with a Retry-After header, which it may also lack
Responses(id, statuses, texts, ctypes) ==
    { r \in [id : {id}, status : statuses, retry_after : {None} \cup (1..MaxRetryAfter),
             text : texts, ctype : ctypes] :
        r.status # 429 => r.retry_after = None }

\* ------------------------------------------------------------------------
\* Steps of HTTPClient.request
\* ------------------------------------------------------------------------
Raise(f, exc, id, data) ==
    [f EXCEPT !.pc = "done",
              !.result = [kind |-> "raise", exc |-> exc, id |-> id, data |-> data,
                          error |-> Missing, description |-> Missing]]

Return(f, id, data) ==
    [f EXCEPT !.pc = "done",
              !.result = [kind |-> "return", exc |-> "", id |-> id, data |-> data,
                          error |-> Missing, description |-> Missing]]

\* raise AuthenticationError(response, data): the error keeps data["error"]
\* and data["error_description"]
RaiseAuthenticationError(f, data) ==
    [f EXCEPT !.pc = "done",
              !.result = [kind |-> "raise", exc |-> "AuthenticationError", id |-> 0,
                          data |-> NoData, error |-> data.error,
                          description |-> data.error_description]]

\* await asyncio.sleep(d)
Sleep(f, kind, d) ==
    [f EXCEPT !.pc = "sleep", !.sleepKind = kind, !.log = Append(@, SleepEvent(d))]

\* session.request(...) is entered: the API server receives call number httpCalls + 1
SendIn(frames, p, f) ==
    /\ httpCalls' = httpCalls + 1
    /\ req' = [frames EXCEPT ![p] = [f EXCEPT !.pc = "http", !.callId = httpCalls + 1]]

Send(p, f) == SendIn(req, p, f)

\* if self._request_lock.is_set() is False: await self._request_lock.wait()
Gate(p, f) ==
    IF impl = "spotipy" /\ ~request_lock
    THEN /\ req' = [req EXCEPT ![p] = [f EXCEPT !.pc = "gate"]]
         /\ UNCHANGED httpCalls
    ELSE Send(p, f)

\* headers = {"Authorization": f"Bearer {credentials.access_token}"}
Authorize(p, f, heap) == Gate(p, [f EXCEPT !.token = heap[f.cred].access_token])

ResolveMut(p, f, slot, heap) ==
    LET c == ChooseCredentials(f.hint, slot) IN
    IF /\ (now - heap[c].last_authorized_time) >= heap[c].expires_in
       /\ \A q \in Procs : ~(req[q].pc = "refreshing" /\ req[q].cred = c)
    THEN /\ grants < MaxGrants
         /\ grants' = grants + 1
         /\ req' = [req EXCEPT ![p] = [f EXCEPT !.cred = c, !.sawExpired = TRUE,
                                                !.pc = "refreshing",
                                                !.serial = grants + 1,
                                                !.posted = heap[c].refresh_token]]
         /\ UNCHANGED httpCalls
    ELSE /\ Authorize(p, [f EXCEPT !.cred = c, !.sawExpired = FALSE], heap)
         /\ UNCHANGED grants
\* _get_credentials from `credentials = credentials or self._credentials` on
Resolve(p, f, slot, heap) ==
    LET c == ChooseCredentials(f.hint, slot) IN
    IF is_expired(heap[c], now)
    THEN /\ grants < MaxGrants
         /\ grants' = grants + 1
         /\ req' = [req EXCEPT ![p] = [f EXCEPT !.cred = c, !.sawExpired = TRUE,
                                                !.pc = "refreshing",
                                                !.serial = grants + 1,
                                                !.posted = heap[c].refresh_token]]
         /\ UNCHANGED httpCalls
    ELSE /\ Authorize(p, [f EXCEPT !.cred = c, !.sawExpired = FALSE], heap)
         /\ UNCHANGED grants

NoUsableSessionMut == TRUE
\* _get_session makes a session: `if self._session is None` (spotipy),
\* `if not self._session or self._session.closed` (aiospotify)
NoUsableSession == session = None \/ (impl = "aiospotify" /\ session \in closed)

\* request() up to its first suspension: _get_session, then _get_credentials
\* up to the POST of from_client_details or of refresh, or on to the first
\* session.request when no token call is needed
StartCall(p, hints, budget) ==
    /\ req[p].pc = "idle"
    /\ calls < budget
    /\ calls' = calls + 1
    /\ \E hint \in hints :
        LET f == [IdleFrame EXCEPT !.hint = hint] IN
        /\ session' = IF NoUsableSession THEN sessionsCreated + 1 ELSE session
        /\ sessionsCreated' = IF NoUsableSession THEN sessionsCreated + 1
                              ELSE sessionsCreated
        /\ IF ~NoUsableSession /\ session \in closed
           THEN \* the first use of a closed ClientSession raises
                \* RuntimeError("Session is closed")
                /\ req' = [req EXCEPT ![p] =
                             Raise(f, "RuntimeError", 0, [fmt |-> "closed", v |-> session])]
                /\ UNCHANGED <<grants, httpCalls>>
           ELSE IF credentials = None
           THEN /\ grants < MaxGrants
                /\ grants' = grants + 1
                /\ req' = [req EXCEPT ![p] = [f EXCEPT !.pc = "creating",
                                                       !.serial = grants + 1]]
                /\ UNCHANGED httpCalls
           ELSE Resolve(p, f, credentials, creds)
    /\ UNCHANGED <<impl, now, credentials, creds, lastGrant, request_lock, closed>>

\* a call of request() made on its own
RequestStart(p, hints) == StartCall(p, hints, MaxCalls) /\ UNCHANGED op

\* the batch endpoints of HTTPClient and the largest number of ids each takes
BatchEndpoints == {"get_multiple_albums", "get_multiple_artists", "get_multiple_shows",
                   "get_multiple_episodes", "get_multiple_tracks",
                   "get_multiple_tracks_audio_features"}
MaxIds(endpoint) ==
    CASE endpoint = "get_multiple_albums" -> 20
      [] endpoint = "get_multiple_tracks_audio_features" -> 100
      [] OTHER -> 50

TooManyIdsMut(endpoint, n) == n >= MaxIds(endpoint)
\* if len(ids) > 20 / 50 / 100
TooManyIds(endpoint, n) == n > MaxIds(endpoint)

\* a batch endpoint is called with n ids: the length check, then
\* `return await self.request(...)` up to the first suspension of request()
EndpointCall(p, hints, budget) ==
    /\ req[p].pc = "idle"
    /\ \E endpoint \in BatchEndpoints : \E n \in 0..(MaxIds(endpoint) + MaxExcess) :
        /\ op' = [name |-> endpoint, pc |-> "called", n |-> n]
        /\ IF TooManyIds(endpoint, n)
           THEN /\ req' = [req EXCEPT ![p] =
                             Raise(IdleFrame, "ValueError", 0, [fmt |-> "ids", v |-> n])]
                /\ UNCHANGED <<impl, now, session, sessionsCreated, credentials, creds,
                               lastGrant, grants, httpCalls, request_lock, calls, closed>>
           ELSE StartCall(p, hints, budget)

\* the endpoints of HTTPClient that take `limit`, and the largest value each allows
PagedEndpoints == {"get_album_tracks", "get_saved_albums", "get_new_releases",
                   "get_artist_albums", "get_show_episodes", "get_saved_shows",
                   "get_saved_episodes", "get_saved_tracks", "get_recommendations",
                   "search", "get_current_user_top_artists",
                   "get_current_user_top_tracks", "get_followed_artists",
                   "get_playlist_items", "get_current_user_playlists",
                   "get_user_playlists", "get_featured_playlists",
                   "get_category_playlists", "get_categories"}
MaxLimit(endpoint) ==
    IF endpoint \in {"get_recommendations", "get_playlist_items"} THEN 100 ELSE 50

\* utilities.limit_value raises: if value < minimum or value > maximum
limit_value(value, minimum, maximum) == value < minimum \/ value > maximum

\* `if limit:` for an integer limit
LimitGiven(limit) == limit # 0

\* the values of limit followed: around 0 and around the endpoint's maximum
Limits(endpoint) ==
    ((0 - MaxExcess)..1) \cup ((MaxLimit(endpoint) - 1)..(MaxLimit(endpoint) + MaxExcess))

\* a paginated endpoint is called with an integer limit: the check of the
\* limit, then `return await self.request(...)` up to the first suspension
\* of request()
PagedCall(p, hints, budget) ==
    /\ req[p].pc = "idle"
    /\ \E endpoint \in PagedEndpoints : \E limit \in Limits(endpoint) :
        /\ op' = [name |-> endpoint, pc |-> "called", limit |-> limit,
                  sent |-> LimitGiven(limit)]
        /\ IF LimitGiven(limit) /\ limit_value(limit, 1, MaxLimit(endpoint))
           THEN /\ req' = [req EXCEPT ![p] =
                             Raise(IdleFrame, "ValueError", 0, [fmt |-> "limit", v |-> limit])]
                /\ UNCHANGED <<impl, now, session, sessionsCreated, credentials, creds,
                               lastGrant, grants, httpCalls, request_lock, calls, closed>>
           ELSE StartCall(p, hints, budget)

\* the token endpoint answers the POST of ClientCredentials.from_client_details
CreateAnswered(p, docs) ==
    /\ req[p].pc = "creating"
    /\ \E data \in docs :
        LET f == [req[p] EXCEPT !.reply = ReplyOf(data)] IN
        IF HasError(data)
        THEN /\ req' = [req EXCEPT ![p] = RaiseAuthenticationError(f, data)]
             /\ UNCHANGED <<credentials, creds, lastGrant, grants, httpCalls>>
        ELSE LET k == req[p].serial
                 heap == [creds EXCEPT ![k] = NewClientCredentials(data, now)] IN
             /\ creds' = heap
             /\ lastGrant' = [lastGrant EXCEPT ![k] = GrantRecord(k, data, now)]
             /\ credentials' = k
             /\ Resolve(p, f, k, heap)
    /\ UNCHANGED <<impl, now, session, sessionsCreated, request_lock, calls,
                   closed, op>>

CreateResponse(p, lifetimes) == CreateAnswered(p, GrantResponses(req[p].serial, lifetimes))

\* the token endpoint answers the POST of credentials.refresh(session)
RefreshAnswered(p, docs) ==
    /\ req[p].pc = "refreshing"
    /\ \E data \in docs :
        LET f == [req[p] EXCEPT !.reply = ReplyOf(data)] IN
        IF HasError(data)
        THEN /\ req' = [req EXCEPT ![p] = RaiseAuthenticationError(f, data)]
             /\ UNCHANGED <<creds, lastGrant, httpCalls>>
        ELSE LET c == req[p].cred
                 heap == [creds EXCEPT ![c] = ApplyGrant(@, data, now)] IN
             /\ creds' = heap
             /\ lastGrant' = [lastGrant EXCEPT ![c] = GrantRecord(req[p].serial, data, now)]
             /\ Authorize(p, f, heap)
    /\ UNCHANGED <<impl, now, session, sessionsCreated, credentials, grants,
                   request_lock, calls, closed, op>>

RefreshResponse(p, lifetimes) == RefreshAnswered(p, GrantResponses(req[p].serial, lifetimes))

\* the end of one pass of the loop body: the next value of tries, or the
\* statements after the loop
NextIterationIn(frames, p, f) ==
    IF f.tries + 1 < MaxTries(impl)
    THEN SendIn(frames, p, [f EXCEPT !.tries = @ + 1])
    ELSE /\ req' = [frames EXCEPT ![p] =
                IF f.response # NoResponse
                THEN Raise(f, ExhaustedError(f.response), f.response.id, f.data)
                ELSE Raise(f, "RuntimeError", 0, NoData)]
         /\ UNCHANGED httpCalls

NextIteration(p, f) == NextIterationIn(req, p, f)

\* session.request raises OSError (the transport fails before a response
\* exists, so `response` keeps its earlier value)
HttpOSError(p, errnos) ==
    /\ req[p].pc = "http"
    /\ \E errno \in errnos :
        LET f == [req[p] EXCEPT !.log = Append(@, OSErrorEvent(errno, req[p].callId))] IN
        req' = [req EXCEPT ![p] =
                  IF RetryOSError(impl, f.tries, errno)
                  THEN Sleep(f, "oserror", BackoffDelay(f.tries))
                  ELSE Raise(f, "OSError", 0, [fmt |-> "errno", v |-> errno])]
    /\ UNCHANGED <<impl, now, session, sessionsCreated, credentials, creds, lastGrant,
                   grants, httpCalls, request_lock, calls, closed, op>>

\* the API server answers: the body of `async with session.request(...)`
HttpResponse(p, statuses, texts, ctypes) ==
    /\ req[p].pc = "http"
    /\ \E r \in Responses(req[p].callId, statuses, texts, ctypes) :
        LET data == json_or_text(r)
            f == [req[p] EXCEPT !.response = r, !.data = data,
                                !.log = Append(@, RespEvent(r))]
            what == Classify(impl, r.status) IN
        CASE what = "return" ->
                /\ req' = [req EXCEPT ![p] = Return(f, r.id, data)]
                /\ UNCHANGED <<httpCalls, request_lock>>
          [] what = "raise_mapped" ->
                /\ req' = [req EXCEPT ![p] = Raise(f, HTTPErrorMapping(r.status), r.id, data)]
                /\ UNCHANGED <<httpCalls, request_lock>>
          [] what = "raise_413" ->
                /\ req' = [req EXCEPT ![p] = Raise(f, "RequestEntityTooLarge", r.id, TooLargeData)]
                /\ UNCHANGED <<httpCalls, request_lock>>
          [] what = "retry_after" ->
                \* spotipy clears the gate before it reads the header
                /\ request_lock' = IF impl = "spotipy" THEN FALSE ELSE request_lock
                /\ req' = [req EXCEPT ![p] =
                             IF r.retry_after = None
                             THEN Raise(f, "KeyError", r.id, NoData)
                             ELSE Sleep(f, "429", RetryAfterDelay(r))]
                /\ UNCHANGED httpCalls
          [] what = "backoff" ->
                /\ req' = [req EXCEPT ![p] = Sleep(f, "backoff", BackoffDelay(f.tries))]
                /\ UNCHANGED <<httpCalls, request_lock>>
          [] what = "raise_server" ->
                /\ req' = [req EXCEPT ![p] = Raise(f, "SpotifyServerError", r.id, data)]
                /\ UNCHANGED <<httpCalls, request_lock>>
          [] what = "raise_http" ->
                /\ req' = [req EXCEPT ![p] = Raise(f, "HTTPError", r.id, data)]
                /\ UNCHANGED <<httpCalls, request_lock>>
          [] what = "fallthrough" ->
                \* aiospotify: no case arm matches, the loop goes on at once
                /\ NextIteration(p, f)
                /\ UNCHANGED request_lock
    /\ UNCHANGED <<impl, now, session, sessionsCreated, credentials, creds, lastGrant,
                   grants, calls, closed, op>>

\* asyncio.Event.set(): the value becomes true and the future of every
\* coroutine suspended in wait() is completed; such a coroutine goes on when
\* the loop next runs it, whether or not the event was cleared meanwhile
SetEvent(frames) ==
    [q \in Procs |-> IF frames[q].pc = "gate" THEN [frames[q] EXCEPT !.pc = "woken"]
                     ELSE frames[q]]

\* asyncio.sleep returns: self._request_lock.set() after a 429 (spotipy), continue
Wake(p) ==
    /\ req[p].pc = "sleep"
    /\ request_lock' = IF impl = "spotipy" /\ req[p].sleepKind = "429" THEN TRUE
                       ELSE request_lock
    /\ NextIterationIn(IF impl = "spotipy" /\ req[p].sleepKind = "429"
                       THEN SetEvent(req) ELSE req,
                       p, [req[p] EXCEPT !.sleepKind = ""])
    /\ UNCHANGED <<impl, now, session, sessionsCreated, credentials, creds, lastGrant,
                   grants, calls, closed, op>>

\* await self._request_lock.wait() returns: the call goes on to its loop
GateOpened(p) ==
    /\ req[p].pc = "woken"
    /\ Send(p, req[p])
    /\ UNCHANGED <<impl, now, session, sessionsCreated, credentials, creds, lastGrant,
                   grants, request_lock, calls, closed, op>>

\* the task running the call is cancelled while it sleeps: CancelledError
\* is raised at the await, and nothing in request() catches it
Cancel(p) ==
    /\ req[p].pc = "sleep"
    /\ req' = [req EXCEPT ![p] = Raise([req[p] EXCEPT !.sleepKind = ""],
                                       "CancelledError", 0, NoData)]
    /\ UNCHANGED <<impl, now, session, sessionsCreated, credentials, creds, lastGrant,
                   grants, httpCalls, request_lock, calls, closed, op>>

\* the caller has its result and may call request() again
Finish(p) ==
    /\ req[p].pc = "done"
    /\ req' = [req EXCEPT ![p] = IdleFrame]
    /\ UNCHANGED <<impl, now, session, sessionsCreated, credentials, creds, lastGrant,
                   grants, httpCalls, request_lock, calls, closed, op>>

\* HTTPClient.close() of spotipy, called while no call of request() is
\* under way: nothing without a session, else the session is closed; the
\* HTTPClient of aiospotify defines no close()
Close ==
    /\ impl = "spotipy"
    /\ \A p \in Procs : req[p].pc \in {"idle", "done"}
    /\ op' = [name |-> "close", pc |-> "done", session |-> session]
    /\ closed' = IF session = None THEN closed ELSE closed \cup {session}
    /\ UNCHANGED <<impl, now, session, sessionsCreated, credentials, creds, lastGrant,
                   grants, httpCalls, request_lock, req, calls>>

\* time passes
Tick ==
    /\ now < MaxTime
    /\ now' = now + 1
    /\ UNCHANGED <<impl, session, sessionsCreated, credentials, creds, lastGrant,
                   grants, httpCalls, request_lock, req, calls, closed, op>>

\* ------------------------------------------------------------------------
\* Specifications
\* ------------------------------------------------------------------------
\* the client right after HTTPClient(client_id=..., client_secret=...); the
\* caller owns a UserCredentials object that was authorized at time 0
InitClient ==
    /\ impl \in Impls
    /\ session = None
    /\ sessionsCreated = 0
    /\ credentials = None
    /\ \E e \in 1..MaxExpiresIn :
        /\ creds = [i \in CredIds |->
                      IF i = UserCred
                      THEN [kind |-> "user", access_token |-> 0, token_type |-> "Bearer",
                            expires_in |-> e, last_authorized_time |-> 0,
                            refresh_token |-> 0]
                      ELSE NoCred]
        /\ lastGrant = [i \in CredIds |->
                      IF i = UserCred
                      THEN [serial |-> 0, access_token |-> 0, token_type |-> "Bearer",
                            expires_in |-> e, at |-> 0]
                      ELSE NoGrant]
    /\ grants = 0
    /\ httpCalls = 0
    /\ request_lock = TRUE
    /\ req = [p \in Procs |-> IdleFrame]
    /\ calls = 0
    /\ closed = {}
    /\ op = NoOp

\* one call of request() against a server that may answer anything, made one
\* second after the user credentials were authorized (expired if expires_in = 1)
InitRetry == InitClient /\ now = 1

NextRetry ==
    \E p \in RetryProcs :
        \/ RequestStart(p, {None, UserCred})
        \/ CreateResponse(p, {MaxExpiresIn})
        \/ RefreshResponse(p, {MaxExpiresIn})
        \/ HttpResponse(p, AllStatuses, 1..MaxBody, ContentTypes)
        \/ HttpOSError(p, Errnos)
        \/ Wake(p)

SpecRetry == InitRetry /\ [][NextRetry]_vars

\* concurrent callers sharing the client and the credentials objects, while
\* time passes, against an API server that answers 200
InitCred == InitClient /\ now = 0

NextCred ==
    \/ Tick
    \/ \E p \in Procs :
        \/ RequestStart(p, {None, UserCred})
        \/ CreateResponse(p, 1..MaxExpiresIn)
        \/ RefreshResponse(p, 1..MaxExpiresIn)
        \/ HttpResponse(p, OkStatuses, {1}, {"application/json"})
        \/ Finish(p)

SpecCred == InitCred /\ [][NextCred]_vars

\* the gate of the spotipy client: calls made through one client, with no
\* credentials hint, against an API server that answers 200 and may rate
\* limit the first MaxLimited calls it receives
GateStatuses(id) == IF id <= MaxLimited THEN {200, 429} ELSE {200}
InitGate == InitClient /\ impl = "spotipy" /\ now = 0

NextGate ==
    \E p \in Procs :
        \/ StartCall(p, {None}, MaxGateCalls) /\ UNCHANGED op
        \/ CreateResponse(p, {MaxExpiresIn})
        \/ HttpResponse(p, GateStatuses(req[p].callId), {1}, {"application/json"})
        \/ Wake(p)
        \/ GateOpened(p)
        \/ Finish(p)

SpecGate == InitGate /\ [][NextGate]_vars

\* the same calls, any of which may be cancelled in its sleep; the servers
\* answer every call, every sleep ends unless cancelled, and the event loop
\* runs every coroutine that is ready
NextGateLive ==
    \/ NextGate
    \/ \E p \in Procs : Cancel(p)

SpecGateLive ==
    /\ InitGate
    /\ [][NextGateLive]_vars
    /\ \A p \in Procs :
          /\ WF_vars(CreateResponse(p, {MaxExpiresIn}))
          /\ WF_vars(HttpResponse(p, GateStatuses(req[p].callId), {1}, {"application/json"}))
          /\ WF_vars(Wake(p))
          /\ WF_vars(GateOpened(p))
          /\ WF_vars(Finish(p))

\* concurrent calls through a client built without a session, and close()
InitSession == InitClient /\ now = 0

NextSession ==
    \/ Close
    \/ \E p \in Procs :
        \/ RequestStart(p, {None})
        \/ CreateResponse(p, {MaxExpiresIn})
        \/ HttpResponse(p, OkStatuses, {1}, {"application/json"})
        \/ Finish(p)

SpecSession == InitSession /\ [][NextSession]_vars

\* calls made one after the other, while time passes, against a token
\* endpoint that answers with any of its error documents or with a grant,
\* and may hand out a new refresh token with a refresh grant
InitToken == InitClient /\ now = 0

NextToken ==
    \/ Tick
    \/ \E p \in RetryProcs :
        \/ RequestStart(p, {None, UserCred})
        \/ CreateAnswered(p, TokenResponses(req[p].serial, {MaxExpiresIn}, AuthErrors,
                                             {None}))
        \/ RefreshAnswered(p, TokenResponses(req[p].serial, {MaxExpiresIn}, AuthErrors,
                                              {None, req[p].serial}))
        \/ HttpResponse(p, OkStatuses, {1}, {"application/json"})
        \/ Finish(p)

SpecToken == InitToken /\ [][NextToken]_vars

\* credentials.is_expired() is called on object c
IsExpiredCall(c) ==
    /\ creds[c].kind # "none"
    /\ op' = [name |-> "is_expired", pc |-> "done", cred |-> c,
              result |-> is_expired(creds[c], now)]
    /\ UNCHANGED <<impl, now, session, sessionsCreated, credentials, creds, lastGrant,
                   grants, httpCalls, request_lock, req, calls, closed>>

\* a client whose credentials objects, the caller's and its own, took a
\* token of TokenLifetime seconds at some time `at`, seen at a time around
\* the expiry
InitExpiry ==
    /\ impl \in Impls
    /\ session = 1
    /\ sessionsCreated = 1
    /\ credentials = 1
    /\ \E at \in 0..MaxDrift :
        /\ creds = [i \in CredIds |->
                      CASE i = UserCred ->
                             [kind |-> "user", access_token |-> 0, token_type |-> "Bearer",
                              expires_in |-> TokenLifetime, last_authorized_time |-> at,
                              refresh_token |-> 0]
                        [] i = 1 ->
                             [kind |-> "client", access_token |-> 1, token_type |-> "Bearer",
                              expires_in |-> TokenLifetime, last_authorized_time |-> at,
                              refresh_token |-> None]
                        [] OTHER -> NoCred]
        /\ lastGrant = [i \in CredIds |->
                      IF i \in {UserCred, 1}
                      THEN [serial |-> i, access_token |-> i, token_type |-> "Bearer",
                            expires_in |-> TokenLifetime, at |-> at]
                      ELSE NoGrant]
        /\ now \in (at + TokenLifetime - MaxDrift)..(at + TokenLifetime + MaxDrift)
    /\ grants = 1
    /\ httpCalls = 0
    /\ request_lock = TRUE
    /\ req = [p \in Procs |-> IdleFrame]
    /\ calls = 0
    /\ closed = {}
    /\ op = NoOp

NextExpiry == \E c \in CredIds : IsExpiredCall(c)

SpecExpiry == InitExpiry /\ [][NextExpiry]_vars

\* calls of the batch endpoints through a new client
InitBatch == InitClient /\ now = 0

NextBatch ==
    \E p \in RetryProcs :
        \/ EndpointCall(p, {None}, MaxCalls)
        \/ CreateResponse(p, {MaxExpiresIn})
        \/ HttpResponse(p, OkStatuses, {1}, {"application/json"})
        \/ Finish(p)

SpecBatch == InitBatch /\ [][NextBatch]_vars

\* calls of the paginated endpoints through a new client
InitPaged == InitClient /\ now = 0

NextPaged ==
    \E p \in RetryProcs :
        \/ PagedCall(p, {None}, MaxCalls)
        \/ CreateResponse(p, {MaxExpiresIn})
        \/ HttpResponse(p, OkStatuses, {1}, {"application/json"})
        \/ Finish(p)

SpecPaged == InitPaged /\ [][NextPaged]_vars

\* ------------------------------------------------------------------------
\* The get-several methods of Client
\* ------------------------------------------------------------------------
\* the class each method builds its records with
RecordClass(method) ==
    CASE method = "get_albums" -> "Album"
      [] method = "get_artists" -> "Artist"
      [] method = "get_shows" -> "Show"
      [] method = "get_episodes" -> "Episode"
      [] method = "get_tracks" -> "Track"
      [] method = "get_several_tracks_audio_features" -> "AudioFeatures"
SeveralMethods == {"get_albums", "get_artists", "get_shows", "get_episodes",
                   "get_tracks", "get_several_tracks_audio_features"}

\* the JSON null, and the None a method puts in its place
NullData == [id |-> None, json |-> "null"]
NoneObject == [class |-> "None", id |-> None]

\* the list the API server answers with: one element per id asked for, in the
\* order asked, null for an id it does not know
ServerList(ids, known) ==
    [i \in 1..Len(ids) |-> IF ids[i] \in known THEN [id |-> ids[i], json |-> "object"]
                           ELSE NullData]

\* [Album(data) if data else None for data in response["albums"]]
BuildAll(method, list) ==
    [i \in 1..Len(list) |-> IF list[i] # NullData
                            THEN [class |-> RecordClass(method), id |-> list[i].id]
                            ELSE NoneObject]

ZipDictMut(keys, values) ==
    LET n == IF Len(keys) < Len(values) THEN Len(keys) ELSE Len(values) IN
    [k \in {keys[i] : i \in 1..n} |->
        values[n + 1 - (CHOOSE i \in 1..n :
                          keys[i] = k /\ \A j \in (i + 1)..n : keys[j] # k)]]
\* dict(zip(keys, values)): pairs up to the shorter length, a later pair
\* replacing an earlier one with the same key
ZipDict(keys, values) ==
    LET n == IF Len(keys) < Len(values) THEN Len(keys) ELSE Len(values) IN
    [k \in {keys[i] : i \in 1..n} |->
        values[CHOOSE i \in 1..n : keys[i] = k /\ \A j \in (i + 1)..n : keys[j] # k]]

\* a get-several method is called with a list of ids
GetSeveralCall(methods, idspace, maxlen) ==
    /\ op = NoOp
    /\ \E method \in methods : \E n \in 0..maxlen : \E ids \in [1..n -> idspace] :
          op' = [name |-> method, pc |-> "called", ids |-> ids]
    /\ UNCHANGED <<impl, now, session, sessionsCreated, credentials, creds,
                   lastGrant, grants, httpCalls, request_lock, req, calls, closed>>

\* the response arrives and the method returns its mapping
GetSeveralReturn(idspace) ==
    /\ op.pc = "called" /\ op.name \in SeveralMethods
    /\ \E known \in SUBSET idspace :
          LET response == ServerList(op.ids, known) IN
          op' = [name |-> op.name, pc |-> "done", ids |-> op.ids, response |-> response,
                 result |-> ZipDict(op.ids, BuildAll(op.name, response))]
    /\ UNCHANGED <<impl, now, session, sessionsCreated, credentials, creds,
                   lastGrant, grants, httpCalls, request_lock, req, calls, closed>>

InitSeveral == InitClient /\ now = 0

NextSeveral ==
    \/ GetSeveralCall(SeveralMethods, 1..MaxCatalogue, MaxBatch)
    \/ GetSeveralReturn(1..MaxCatalogue)

SpecSeveral == InitSeveral /\ [][NextSeveral]_vars

\* ------------------------------------------------------------------------
\* The paging helpers of Client
\* ------------------------------------------------------------------------
GetAllHelpers == {"get_all_album_tracks", "get_all_artist_albums",
                  "get_all_show_episodes", "get_all_playlist_items",
                  "get_all_current_user_playlists", "get_all_user_playlists"}
FullHelpers == {"get_full_album"}

\* limit=50 / limit=100 of the helper's page requests
PageSize(h) == IF h = "get_all_playlist_items" THEN 100 ELSE 50

FirstIndexMut(h) == 0
\* the first value of the loop: range(1, ...), and range(2, ...) in get_full_album
FirstIndex(h) == IF h = "get_full_album" THEN 2 ELSE 1

CeilDivMut(a, b) == a \div b
\* math.ceil(a / b)
CeilDiv(a, b) == (a + b - 1) \div b

\* the server's listing of `total` items, and its answer to a page request
Items(total) == [k \in 1..total |-> k]
Page(total, offset, limit) ==
    SubSeq(Items(total), offset + 1,
           IF offset + limit < total THEN offset + limit ELSE total)

\* the helper up to its first loop pass: the first page (requested with
\* offset=0, or embedded in the album that get_album returned), the early
\* return for total <= page size, and the bounds of the loop
HelperStart(helpers, totals) ==
    /\ op.pc = "idle"
    /\ \E h \in helpers : \E total \in totals :
        LET stop == CeilDiv(total, PageSize(h)) IN
        op' = [name |-> h, total |-> total,
               pc |-> IF total <= PageSize(h) \/ FirstIndex(h) >= stop
                      THEN "done" ELSE "paging",
               i |-> FirstIndex(h), stop |-> stop,
               offsets |-> IF h \in FullHelpers THEN <<>> ELSE <<0>>,
               reported |-> <<total>>,
               items |-> Page(total, 0, PageSize(h))]
    /\ UNCHANGED <<impl, now, session, sessionsCreated, credentials, creds, lastGrant,
                   grants, httpCalls, request_lock, req, calls, closed>>

\* one pass of the loop: the page at offset _ * size is requested and its
\* items are appended; the listing holds `changes` more items by then, and
\* the page reports the new total, which the helper does not read
HelperPageOf(changes) ==
    /\ op.pc = "paging"
    /\ \E d \in changes :
        LET offset == op.i * PageSize(op.name)
            total == IF op.total + d < 0 THEN 0 ELSE op.total + d IN
        op' = [op EXCEPT !.items = @ \o Page(total, offset, PageSize(op.name)),
                         !.offsets = Append(@, offset),
                         !.reported = Append(@, total),
                         !.i = @ + 1,
                         !.pc = IF op.i + 1 < op.stop THEN "paging" ELSE "done"]
    /\ UNCHANGED <<impl, now, session, sessionsCreated, credentials, creds, lastGrant,
                   grants, httpCalls, request_lock, req, calls, closed>>

\* the same against a listing that does not change
HelperPage == HelperPageOf({0})

InitPages == InitClient /\ now = 0

NextPages ==
    \/ HelperStart(GetAllHelpers \cup FullHelpers, 0..MaxTotal)
    \/ HelperPage

SpecPages == InitPages /\ [][NextPages]_vars

\* the get_all_* helpers against listings that change while they are paged
NextPagesDrift ==
    \/ HelperStart(GetAllHelpers, 0..MaxTotal)
    \/ HelperPageOf({0 - MaxChange, 0, MaxChange})

SpecPagesDrift == InitPages /\ [][NextPagesDrift]_vars

\* ------------------------------------------------------------------------
\* Route of spotipy and the routes its endpoint methods build
\* ------------------------------------------------------------------------
\* Route.BASE
BASE == "https://api.spotify.com/v1"

\* a URL or a path is the sequence of its parts: "/" separators, literal
\* segments, and replacement fields such as "{id}"
FieldKey(part) ==
    CASE part = "{id}" -> "id"
      [] part = "{user_id}" -> "user_id"
      [] OTHER -> ""

\* the ids followed, and urllib.parse.quote of each (safe = "/")
RouteIds == {"4aawyAB9vmqN3uQ7FjRGTy", "a b", "a/b", ""}
quote(v) ==
    CASE v = "a b" -> "a%20b"
      [] OTHER -> v

\* url.format_map({k: quote(v) ...}): every replacement field gives way to
\* the quoted value of its key
format_map(url, parameters) ==
    [i \in 1..Len(url) |->
        IF FieldKey(url[i]) \in DOMAIN parameters
        THEN quote(parameters[FieldKey(url[i])]) ELSE url[i]]

\* Route.__init__: url = self.BASE + path, formatted if there are parameters
RouteUrl(path, parameters) ==
    IF DOMAIN parameters # {} THEN format_map(<<BASE>> \o path, parameters)
    ELSE <<BASE>> \o path

\* the Route(...) expression of every endpoint method of HTTPClient: its
\* method, its path, and the keywords it passes
Routes ==
    {[endpoint |-> "get_album", method |-> "GET", path |-> <<"/", "albums", "/", "{id}">>, keys |-> {"id"}],
     [endpoint |-> "get_multiple_albums", method |-> "GET", path |-> <<"/", "albums">>, keys |-> {}],
     [endpoint |-> "get_album_tracks", method |-> "GET", path |-> <<"/", "albums", "/", "{id}", "/", "tracks">>, keys |-> {"id"}],
     [endpoint |-> "get_saved_albums", method |-> "GET", path |-> <<"/", "me", "/", "albums">>, keys |-> {}],
     [endpoint |-> "save_albums", method |-> "PUT", path |-> <<"/", "me", "/", "albums">>, keys |-> {}],
     [endpoint |-> "remove_albums", method |-> "DELETE", path |-> <<"/", "me", "/", "albums">>, keys |-> {}],
     [endpoint |-> "check_saved_albums", method |-> "GET", path |-> <<"/", "me", "/", "albums", "/", "contains">>, keys |-> {}],
     [endpoint |-> "get_new_releases", method |-> "GET", path |-> <<"/", "browse", "/", "new-releases">>, keys |-> {}],
     [endpoint |-> "get_artist", method |-> "GET", path |-> <<"/", "artists", "/", "{id}">>, keys |-> {"id"}],
     [endpoint |-> "get_multiple_artists", method |-> "GET", path |-> <<"/", "artists">>, keys |-> {}],
     [endpoint |-> "get_artist_albums", method |-> "GET", path |-> <<"/", "artists", "/", "{id}", "/", "albums">>, keys |-> {"id"}],
     [endpoint |-> "get_artist_top_tracks", method |-> "GET", path |-> <<"/", "artists", "/", "{id}", "/", "top-tracks">>, keys |-> {"id"}],
     [endpoint |-> "get_related_artists", method |-> "GET", path |-> <<"/", "artists", "/", "{id}", "/", "related-artists">>, keys |-> {"id"}],
     [endpoint |-> "get_show", method |-> "GET", path |-> <<"/", "shows", "/", "{id}">>, keys |-> {"id"}],
     [endpoint |-> "get_multiple_shows", method |-> "GET", path |-> <<"/", "shows">>, keys |-> {}],
     [endpoint |-> "get_show_episodes", method |-> "GET", path |-> <<"/", "shows", "/", "{id}", "/", "episodes">>, keys |-> {"id"}],
     [endpoint |-> "get_saved_shows", method |-> "GET", path |-> <<"/", "me", "/", "shows">>, keys |-> {}],
     [endpoint |-> "save_shows", method |-> "PUT", path |-> <<"/", "me", "/", "shows">>, keys |-> {}],
     [endpoint |-> "remove_shows", method |-> "DELETE", path |-> <<"/", "me", "/", "shows">>, keys |-> {}],
     [endpoint |-> "check_saved_shows", method |-> "GET", path |-> <<"/", "me", "/", "shows", "/", "contains">>, keys |-> {}],
     [endpoint |-> "get_episode", method |-> "GET", path |-> <<"/", "episodes", "/", "{id}">>, keys |-> {"id"}],
     [endpoint |-> "get_multiple_episodes", method |-> "GET", path |-> <<"/", "episodes">>, keys |-> {}],
     [endpoint |-> "get_saved_episodes", method |-> "GET", path |-> <<"/", "me", "/", "episodes">>, keys |-> {}],
     [endpoint |-> "save_episodes", method |-> "PUT", path |-> <<"/", "me", "/", "episodes">>, keys |-> {}],
     [endpoint |-> "remove_episodes", method |-> "DELETE", path |-> <<"/", "me", "/", "episodes">>, keys |-> {}],
     [endpoint |-> "check_saved_episodes", method |-> "GET", path |-> <<"/", "me", "/", "episodes", "/", "contains">>, keys |-> {}],
     [endpoint |-> "get_track", method |-> "GET", path |-> <<"/", "tracks", "/", "{id}">>, keys |-> {"id"}],
     [endpoint |-> "get_multiple_tracks", method |-> "GET", path |-> <<"/", "tracks">>, keys |-> {}],
     [endpoint |-> "get_saved_tracks", method |-> "GET", path |-> <<"/", "me", "/", "tracks">>, keys |-> {}],
     [endpoint |-> "save_tracks", method |-> "PUT", path |-> <<"/", "me", "/", "tracks">>, keys |-> {}],
     [endpoint |-> "remove_tracks", method |-> "DELETE", path |-> <<"/", "me", "/", "tracks">>, keys |-> {}],
     [endpoint |-> "check_saved_tracks", method |-> "GET", path |-> <<"/", "me", "/", "tracks", "/", "contains">>, keys |-> {}],
     [endpoint |-> "get_track_audio_features", method |-> "GET", path |-> <<"/", "audio-features", "/", "{id}">>, keys |-> {"id"}],
     [endpoint |-> "get_multiple_tracks_audio_features", method |-> "GET", path |-> <<"/", "audio-features">>, keys |-> {}],
     [endpoint |-> "get_track_audio_analysis", method |-> "GET", path |-> <<"/", "audio-analysis", "/", "{id}">>, keys |-> {"id"}],
     [endpoint |-> "get_recommendations", method |-> "GET", path |-> <<"/", "recommendations">>, keys |-> {}],
     [endpoint |-> "search", method |-> "GET", path |-> <<"/", "search">>, keys |-> {}],
     [endpoint |-> "get_current_user_profile", method |-> "GET", path |-> <<"/", "me">>, keys |-> {}],
     [endpoint |-> "get_current_user_top_artists", method |-> "GET", path |-> <<"/", "me", "/", "top", "/", "artists">>, keys |-> {}],
     [endpoint |-> "get_current_user_top_tracks", method |-> "GET", path |-> <<"/", "me", "/", "top", "/", "tracks">>, keys |-> {}],
     [endpoint |-> "get_user_profile", method |-> "GET", path |-> <<"/", "users", "/", "{id}">>, keys |-> {"id"}],
     [endpoint |-> "follow_playlist", method |-> "PUT", path |-> <<"playlists", "/", "{id}", "/", "followers">>, keys |-> {"id"}],
     [endpoint |-> "unfollow_playlist", method |-> "DELETE", path |-> <<"playlists", "/", "{id}", "/", "followers">>, keys |-> {"id"}],
     [endpoint |-> "check_if_users_follow_playlist", method |-> "GET", path |-> <<"/", "playlists", "/", "{id}", "/", "followers", "/", "contains">>, keys |-> {"id"}],
     [endpoint |-> "get_followed_artists", method |-> "GET", path |-> <<"/", "me", "/", "following">>, keys |-> {}],
     [endpoint |-> "follow_artists", method |-> "PUT", path |-> <<"/", "me", "/", "following">>, keys |-> {}],
     [endpoint |-> "unfollow_artists", method |-> "DELETE", path |-> <<"/", "me", "/", "following">>, keys |-> {}],
     [endpoint |-> "check_followed_artists", method |-> "GET", path |-> <<"/", "me", "/", "following", "/", "contains">>, keys |-> {}],
     [endpoint |-> "follow_users", method |-> "PUT", path |-> <<"/", "me", "/", "following">>, keys |-> {}],
     [endpoint |-> "unfollow_users", method |-> "DELETE", path |-> <<"/", "me", "/", "following">>, keys |-> {}],
     [endpoint |-> "check_followed_users", method |-> "GET", path |-> <<"/", "me", "/", "following", "/", "contains">>, keys |-> {}],
     [endpoint |-> "get_playlist", method |-> "GET", path |-> <<"/", "playlists", "/", "{id}">>, keys |-> {"id"}],
     [endpoint |-> "change_playlist_details", method |-> "PUT", path |-> <<"/", "playlists", "/", "{id}">>, keys |-> {"id"}],
     [endpoint |-> "get_playlist_items", method |-> "GET", path |-> <<"/", "playlists", "/", "{id}", "/", "tracks">>, keys |-> {"id"}],
     [endpoint |-> "add_items_to_playlist", method |-> "POST", path |-> <<"/", "playlists", "/", "{id}", "/", "tracks">>, keys |-> {"id"}],
     [endpoint |-> "reorder_playlist_items", method |-> "PUT", path |-> <<"/", "playlists", "/", "{id}", "/", "tracks">>, keys |-> {"id"}],
     [endpoint |-> "replace_playlist_items", method |-> "PUT", path |-> <<"/", "playlists", "/", "{id}", "/", "tracks">>, keys |-> {"id"}],
     [endpoint |-> "remove_items_from_playlist", method |-> "DELETE", path |-> <<"/", "playlists", "/", "{id}", "/", "tracks">>, keys |-> {"id"}],
     [endpoint |-> "get_current_user_playlists", method |-> "GET", path |-> <<"/", "me", "/", "playlists">>, keys |-> {}],
     [endpoint |-> "get_user_playlists", method |-> "GET", path |-> <<"/", "users", "/", "{id}", "/", "playlists">>, keys |-> {"id"}],
     [endpoint |-> "create_playlist", method |-> "POST", path |-> <<"/", "users", "/", "{user_id}", "/", "playlists">>, keys |-> {"user_id"}],
     [endpoint |-> "get_featured_playlists", method |-> "GET", path |-> <<"/", "browse", "/", "featured-playlists">>, keys |-> {}],
     [endpoint |-> "get_category_playlists", method |-> "GET", path |-> <<"/", "browse", "/", "categories", "/", "{id}", "/", "playlists">>, keys |-> {"id"}],
     [endpoint |-> "get_playlist_cover_image", method |-> "GET", path |-> <<"/", "playlists", "/", "{id}", "/", "images">>, keys |-> {"id"}],
     [endpoint |-> "upload_playlist_cover_image", method |-> "PUT", path |-> <<"/", "playlists", "/", "{id}", "/", "images">>, keys |-> {"id"}],
     [endpoint |-> "get_categories", method |-> "GET", path |-> <<"/", "browse", "/", "categories">>, keys |-> {}],
     [endpoint |-> "get_category", method |-> "GET", path |-> <<"/", "browse", "/", "categories", "/", "{id}">>, keys |-> {"id"}],
     [endpoint |-> "get_available_genre_seeds", method |-> "GET", path |-> <<"/", "recommendations", "/", "available-genre-seeds">>, keys |-> {}],
     [endpoint |-> "get_playback_state", method |-> "GET", path |-> <<"/", "me", "/", "player">>, keys |-> {}],
     [endpoint |-> "transfer_playback", method |-> "PUT", path |-> <<"/", "me", "/", "player">>, keys |-> {}],
     [endpoint |-> "get_available_devices", method |-> "GET", path |-> <<"/", "me", "/", "player", "/", "devices">>, keys |-> {}],
     [endpoint |-> "get_currently_playing_track", method |-> "GET", path |-> <<"/", "me", "/", "player", "/", "currently-playing">>, keys |-> {}],
     [endpoint |-> "start_playback", method |-> "PUT", path |-> <<"/", "me", "/", "player", "/", "play">>, keys |-> {}],
     [endpoint |-> "pause_playback", method |-> "PUT", path |-> <<"/", "me", "/", "player", "/", "pause">>, keys |-> {}],
     [endpoint |-> "skip_to_next", method |-> "POST", path |-> <<"/", "me", "/", "player", "/", "next">>, keys |-> {}],
     [endpoint |-> "skip_to_previous", method |-> "POST", path |-> <<"/", "me", "/", "player", "/", "previous">>, keys |-> {}],
     [endpoint |-> "seek_to_position", method |-> "PUT", path |-> <<"/", "me", "/", "player", "/", "seek">>, keys |-> {}],
     [endpoint |-> "set_repeat_mode", method |-> "PUT", path |-> <<"/", "me", "/", "player", "/", "repeat">>, keys |-> {}],
     [endpoint |-> "set_playback_volume", method |-> "PUT", path |-> <<"/", "me", "/", "player", "/", "volume">>, keys |-> {}],
     [endpoint |-> "toggle_playback_shuffle", method |-> "PUT", path |-> <<"/", "me", "/", "player", "/", "shuffle">>, keys |-> {}],
     [endpoint |-> "get_recently_played_tracks", method |-> "GET", path |-> <<"/", "me", "/", "player", "/", "recently-played">>, keys |-> {}],
     [endpoint |-> "add_item_to_playback_queue", method |-> "POST", path |-> <<"/", "me", "/", "player", "/", "queue">>, keys |-> {}],
     [endpoint |-> "get_available_markets", method |-> "GET", path |-> <<"/", "markets">>, keys |-> {}]}

\* an endpoint method builds its Route for the id it was given
NewRoute(routes, ids) ==
    /\ op = NoOp
    /\ \E r \in routes : \E v \in ids :
        LET parameters == [k \in r.keys |-> v] IN
        op' = [name |-> r.endpoint, pc |-> "route", method |-> r.method,
               path |-> r.path, id |-> IF r.keys = {} THEN "" ELSE v,
               url |-> RouteUrl(r.path, parameters)]
    /\ UNCHANGED <<impl, now, session, sessionsCreated, credentials, creds, lastGrant,
                   grants, httpCalls, request_lock, req, calls, closed>>

InitRoute == InitClient /\ impl = "spotipy" /\ now = 0

NextRoute == NewRoute(Routes, RouteIds)

SpecRoute == InitRoute /\ [][NextRoute]_vars

TypeOK ==
    /\ impl \in Impls
    /\ now \in 0..MaxTime
    /\ grants \in 0..MaxGrants
    /\ \A p \in Procs : req[p].pc \in {"idle", "creating", "refreshing", "gate",
                                       "woken", "http", "sleep", "done"}

\* ------------------------------------------------------------------------
\* Reading a call's log
\* ------------------------------------------------------------------------
Log(p) == req[p].log
Result(p) == req[p].result
IsAttempt(e) == e.kind \in {"resp", "oserror"}
\* the attempts of the call that have had their outcome
AttemptsBefore(l, i) == Cardinality({j \in 1..(i - 1) : IsAttempt(l[j])})
Attempts(l) == AttemptsBefore(l, Len(l) + 1)
\* the call of p ended by raising exc, built from response number id
Raised(p, exc, id) ==
    /\ req[p].pc = "done"
    /\ Result(p).kind = "raise"
    /\ Result(p).exc = exc
    /\ Result(p).id = id
\* the call of p ended by returning the parsed body of response number id
Returned(p, id) ==
    /\ req[p].pc = "done"
    /\ Result(p).kind = "return"
    /\ Result(p).id = id
    /\ req[p].response.id = id
    /\ Result(p).data = [fmt |-> IF req[p].response.ctype = "application/json"
                                 THEN "dict" ELSE "str",
                         v |-> req[p].response.text]

\* ------------------------------------------------------------------------
\* C1  A 400, 401, 403, 404 or 413 response, on whichever attempt, ends the
\* call at once with the matching typed error: the response is the last
\* event of the call, so no sleep and no further attempt follow it.
\* ------------------------------------------------------------------------
TypedError(status) ==
    CASE status = 400 -> "BadRequest"
      [] status = 401 -> "Unauthorized"
      [] status = 403 -> "Forbidden"
      [] status = 404 -> "NotFound"
      [] status = 413 -> "RequestEntityTooLarge"

C1_ClientErrorRaisesAtOnce ==
    \A p \in Procs : \A i \in 1..Len(Log(p)) :
        (Log(p)[i].kind = "resp" /\ Log(p)[i].n \in {400, 401, 403, 404, 413})
        => /\ i = Len(Log(p))
           /\ Raised(p, TypedError(Log(p)[i].n), Log(p)[i].id)

\* a 404 on the third attempt, after two retried ones
C1_Witness ==
    \E p \in Procs :
        /\ Len(Log(p)) = 5
        /\ Log(p)[5].kind = "resp" /\ Log(p)[5].n = 404
        /\ Attempts(Log(p)) = 3
        /\ Raised(p, "NotFound", Log(p)[5].id)

\* ------------------------------------------------------------------------
\* C2  Calls that have seen nothing but 429 responses carrying Retry-After.
\* ------------------------------------------------------------------------
Only429(l) ==
    /\ Attempts(l) >= 1
    /\ \A i \in 1..Len(l) : IsAttempt(l[i]) =>
          l[i].kind = "resp" /\ l[i].n = 429 /\ l[i].ra # None

\* C2 as stated: whatever the number of 429 responses (each with a
\* Retry-After header), request does not raise.
C2_NeverRaisesOn429 ==
    \A p \in Procs : Only429(Log(p)) => Result(p).kind # "raise"

\* C2 amended: after 429 responses alone, request sleeps Retry-After seconds
\* after each of them and raises only once every attempt of the budget (4 in
\* spotipy, 3 in aiospotify) was answered 429; what it raises then is the
\* generic HTTPError built from the last response.
C2_RaisesOn429OnlyWhenExhausted ==
    \A p \in Procs : Only429(Log(p)) =>
        /\ \A i \in 1..Len(Log(p)) :
              IsAttempt(Log(p)[i]) =>
                  /\ i < Len(Log(p))
                  /\ Log(p)[i + 1] = [kind |-> "sleep", n |-> Log(p)[i].ra,
                                      id |-> 0, ra |-> None]
        /\ Result(p).kind # "return"
        /\ Result(p).kind = "raise" =>
              /\ Attempts(Log(p)) = (IF impl = "spotipy" THEN 4 ELSE 3)
              /\ Raised(p, "HTTPError", Log(p)[Len(Log(p)) - 1].id)

\* the budget used up by 429 responses, HTTPError raised
C2_Witness ==
    \E p \in Procs :
        /\ Only429(Log(p))
        /\ Attempts(Log(p)) = 4
        /\ Result(p).exc = "HTTPError"

\* ------------------------------------------------------------------------
\* C3  429 with Retry-After: n, answered 2xx on the next attempt.
\* ------------------------------------------------------------------------
\* l[i] is a 429 with a header, l[j] the outcome of the next attempt
NextAttempt(l, i, j) ==
    /\ i < j
    /\ l[i].kind = "resp" /\ l[i].n = 429 /\ l[i].ra # None
    /\ IsAttempt(l[j])
    /\ \A k \in (i + 1)..(j - 1) : ~IsAttempt(l[k])

RetryAfterThenOk(p, ok(_)) ==
    \A i \in 1..Len(Log(p)) : \A j \in 1..Len(Log(p)) :
        (NextAttempt(Log(p), i, j) /\ Log(p)[j].kind = "resp" /\ ok(Log(p)[j].n))
        => /\ j = i + 2
           /\ Log(p)[i + 1] = [kind |-> "sleep", n |-> Log(p)[i].ra, id |-> 0, ra |-> None]
           /\ j = Len(Log(p))
           /\ Returned(p, Log(p)[j].id)

Is2xx(status) == 200 <= status /\ status <= 299
\* the statuses each client returns the body for
ReturnedStatus(status) ==
    IF impl = "spotipy" THEN Is2xx(status) ELSE status \in {200, 201, 202, 204}

\* C3 as stated: a 429 with Retry-After: n followed by any 2xx response gives
\* exactly one sleep, of n seconds, between the two attempts, and the body
\* of the 2xx response is returned.
C3_RetryAfterThen2xx == \A p \in Procs : RetryAfterThenOk(p, Is2xx)

\* C3 amended: the same, for a second response whose status the client
\* returns on: any 2xx in spotipy; 200, 201, 202 or 204 in aiospotify.
C3_RetryAfterThenReturned == \A p \in Procs : RetryAfterThenOk(p, ReturnedStatus)

\* a 429 with Retry-After: 2, one sleep of 2, then the 200 returned
C3_Witness ==
    \E p \in Procs :
        /\ Len(Log(p)) = 3
        /\ Log(p)[1].kind = "resp" /\ Log(p)[1].n = 429 /\ Log(p)[1].ra = 2
        /\ Log(p)[2].kind = "sleep" /\ Log(p)[2].n = 2
        /\ Log(p)[3].kind = "resp" /\ Log(p)[3].n = 200
        /\ Returned(p, Log(p)[3].id)

\* ------------------------------------------------------------------------
\* C4  500/502/503 on earlier attempts, 2xx on a later one.
\* ------------------------------------------------------------------------
ServerErrorThenOk(p, ok(_)) ==
    \A j \in 1..Len(Log(p)) :
        (/\ Log(p)[j].kind = "resp" /\ ok(Log(p)[j].n)
         /\ \E i \in 1..(j - 1) : Log(p)[i].kind = "resp" /\ Log(p)[i].n \in {500, 502, 503})
        => /\ j = Len(Log(p))
           /\ Returned(p, Log(p)[j].id)

\* C4 as stated: after one or more 500/502/503 responses, a later attempt
\* answered with any 2xx status makes request return that body.
C4_ServerErrorThen2xx == \A p \in Procs : ServerErrorThenOk(p, Is2xx)

\* C4 amended: the same, for a later response whose status the client
\* returns on: any 2xx in spotipy; 200, 201, 202 or 204 in aiospotify.
C4_ServerErrorThenReturned == \A p \in Procs : ServerErrorThenOk(p, ReturnedStatus)

\* 503, backoff, then a 204 that is returned
C4_Witness ==
    \E p \in Procs :
        /\ Len(Log(p)) = 3
        /\ Log(p)[1].kind = "resp" /\ Log(p)[1].n = 503
        /\ Log(p)[3].kind = "resp" /\ Log(p)[3].n = 204
        /\ Returned(p, Log(p)[3].id)

\* ------------------------------------------------------------------------
\* C5  When every attempt of the budget was retried after a 429, 500, 502
\* or 503 response, the call raises SpotifyServerError if the last status
\* is >= 500 and HTTPError otherwise, built from the last response.
\* ------------------------------------------------------------------------
AllRetried(l) ==
    \A i \in 1..Len(l) : IsAttempt(l[i]) =>
        /\ l[i].kind = "resp"
        /\ l[i].n \in {429, 500, 502, 503}
        /\ l[i].n = 429 => l[i].ra # None

LastAttempt(l) == l[CHOOSE i \in 1..Len(l) :
                       IsAttempt(l[i]) /\ \A k \in (i + 1)..Len(l) : ~IsAttempt(l[k])]

LoopRanOut(p) ==
    /\ req[p].pc = "done"
    /\ Result(p).exc \in {"SpotifyServerError", "HTTPError", "RuntimeError"}
    /\ Len(Log(p)) >= 1
    /\ Log(p)[Len(Log(p))].kind = "sleep" \/ impl = "aiospotify"
    /\ Attempts(Log(p)) = MaxTries(impl)

C6_RuntimeErrorUnreachable ==
    \A p \in Procs :
        /\ Result(p).exc # "RuntimeError"
        /\ LoopRanOut(p) => req[p].response # NoResponse

\* the loop ran out after connection resets on all attempts but the last
C6_Witness ==
    \E p \in Procs :
        /\ LoopRanOut(p)
        /\ Cardinality({i \in 1..Len(Log(p)) : Log(p)[i].kind = "oserror"})
              = MaxTries(impl) - 1

\* ------------------------------------------------------------------------
\* C7  spotipy: a status >= 500 other than 500, 502, 503 raises
\* SpotifyServerError on that attempt; no sleep, no further attempt.
\* ------------------------------------------------------------------------
C7_OtherServerErrorRaises ==
    impl = "spotipy" =>
        \A p \in Procs : \A i \in 1..Len(Log(p)) :
            (/\ Log(p)[i].kind = "resp"
             /\ Log(p)[i].n >= 500
             /\ Log(p)[i].n \notin {500, 502, 503})
            => /\ i = Len(Log(p))
               /\ Raised(p, "SpotifyServerError", Log(p)[i].id)

\* a 504 on the second attempt
C7_Witness ==
    /\ impl = "spotipy"
    /\ \E p \in Procs :
        /\ Len(Log(p)) = 3
        /\ Log(p)[3].kind = "resp" /\ Log(p)[3].n = 504
        /\ Raised(p, "SpotifyServerError", Log(p)[3].id)

\* ------------------------------------------------------------------------
\* C8  An OSError with errno 54 or 10054 on an attempt that is not the last
\* is followed by a sleep of 1 + 2 * attempt_index seconds and another
\* attempt; on the last attempt, or with another errno, it is raised to the
\* caller as the last event of the call.
\* ------------------------------------------------------------------------
C8_ConnectionResetRetried ==
    \A p \in Procs : \A i \in 1..Len(Log(p)) :
        Log(p)[i].kind = "oserror" =>
            LET index == AttemptsBefore(Log(p), i)
                last == (IF impl = "spotipy" THEN 4 ELSE 3) - 1 IN
            IF Log(p)[i].n \in {54, 10054} /\ index < last
            THEN /\ i < Len(Log(p))
                 /\ Log(p)[i + 1] = [kind |-> "sleep", n |-> 1 + 2 * index,
                                     id |-> 0, ra |-> None]
                 /\ Len(Log(p)) = i + 1 => req[p].pc \in {"sleep", "http"}
                 /\ Len(Log(p)) > i + 1 => IsAttempt(Log(p)[i + 2])
            ELSE /\ i = Len(Log(p))
                 /\ Raised(p, "OSError", 0)
                 /\ Result(p).data = [fmt |-> "errno", v |-> Log(p)[i].n]

\* a reset on the second attempt, slept 3 seconds, third attempt made
C8_Witness ==
    \E p \in Procs :
        /\ Len(Log(p)) >= 5
        /\ Log(p)[3].kind = "oserror" /\ Log(p)[3].n = 10054
        /\ Log(p)[4].kind = "sleep" /\ Log(p)[4].n = 3
        /\ IsAttempt(Log(p)[5])

\* ------------------------------------------------------------------------
\* C9  Which token a call sends.
\* ------------------------------------------------------------------------
\* the step in which p chooses its credentials object
CredentialsChosen(p) == req[p].cred = None /\ req'[p].cred # None
\* the step in which p builds its Authorization header
HeaderBuilt(p) == req[p].token = None /\ req'[p].token # None
Expired(c, t) == t - c.last_authorized_time >= c.expires_in

\* C9 as stated: the token sent is the hint's when a hint is given and is
\* unexpired, and the token of the object in the client-level slot in every
\* other case.
C9_HintOnlyWhenUnexpired ==
    [][\A p \in Procs : HeaderBuilt(p) =>
          req'[p].token =
              IF req'[p].hint # None /\ ~req'[p].sawExpired
              THEN creds'[req'[p].hint].access_token
              ELSE creds'[credentials'].access_token]_vars

\* C9 amended: a call given a hint sends the token of the hint, after
\* refreshing the hint when it is expired; a call given no hint sends the
\* token of the client-credentials object it finds in the client-level slot.
\* That object is created by a call that finds the slot empty (hint or not),
\* later calls use the object they find in the slot, and the object a call
\* has chosen is refreshed, only when it is expired, before its token is sent.
C9_TokenOfChosenCredentials ==
    [][\A p \in Procs :
          /\ CredentialsChosen(p) =>
                /\ credentials' # None
                /\ req'[p].cred = IF req'[p].hint # None THEN req'[p].hint
                                  ELSE credentials'
                /\ req'[p].sawExpired = Expired(creds'[req'[p].cred], now)
          /\ HeaderBuilt(p) =>
                /\ req'[p].token = creds'[req'[p].cred].access_token
                /\ ~Expired(creds'[req'[p].cred], now')
          /\ (req[p].pc # "creating" /\ req'[p].pc = "creating") =>
                credentials = None /\ grants' = grants + 1
          /\ (req[p].pc = "idle" /\ req'[p].pc # "idle" /\ credentials # None) =>
                credentials' = credentials /\ req'[p].pc # "creating"
          /\ (req[p].pc # "refreshing" /\ req'[p].pc = "refreshing") =>
                /\ Expired(creds'[req'[p].cred], now)
                /\ grants' = grants + 1
          /\ (req[p].pc = "idle" /\ req'[p].pc = "http") => grants' = grants
       ]_vars

\* a call given an expired hint is sending the token the refresh gave the
\* hint, while the client-level object holds another token
C9_Witness ==
    \E p \in Procs :
        /\ req[p].pc = "http"
        /\ req[p].hint = UserCred
        /\ req[p].sawExpired
        /\ req[p].token = creds[UserCred].access_token
        /\ req[p].token # 0
        /\ credentials # None
        /\ creds[credentials].access_token # req[p].token

\* ------------------------------------------------------------------------
\* C10  Under concurrent refreshes, the access_token, token_type, expires_in
\* and last-authorized time of every credentials object are those of one
\* grant response, the last one processed for the object.
\* ------------------------------------------------------------------------
C10_FieldsFromOneGrant ==
    \A c \in CredIds : creds[c].kind # "none" =>
        /\ creds[c].access_token = lastGrant[c].access_token
        /\ creds[c].token_type = lastGrant[c].token_type
        /\ creds[c].expires_in = lastGrant[c].expires_in
        /\ creds[c].last_authorized_time = lastGrant[c].at

\* two refreshes of one object overlap: the response of the grant posted
\* later has been processed while the earlier grant is still in flight
C10_Witness ==
    \E p \in Procs :
        /\ req[p].pc = "refreshing"
        /\ lastGrant[req[p].cred].serial > req[p].serial
        /\ lastGrant[req[p].cred].expires_in # MaxExpiresIn

\* ------------------------------------------------------------------------
\* C11  A call of request that finds the client credentials not yet created,
\* or finds the credentials object it chose expired, posts a grant request of
\* its own to the token endpoint, whatever grant requests of other calls are
\* in flight for the same object: one expiry can cause more than one
\* token-endpoint call.
\* ------------------------------------------------------------------------
\* p leaves the idle state: request() runs up to its first await
Starts(p) == req[p].pc = "idle" /\ req'[p].pc # "idle"

C11_EachCallPostsItsOwnGrant ==
    [][\A p \in Procs : Starts(p) =>
          /\ credentials = None =>
                /\ req'[p].pc = "creating"
                /\ grants' = grants + 1
                /\ req'[p].serial = grants'
          /\ (credentials # None /\
              Expired(creds[IF req'[p].hint # None THEN req'[p].hint ELSE credentials],
                      now)) =>
                /\ req'[p].pc = "refreshing"
                /\ grants' = grants + 1
                /\ req'[p].serial = grants'
       ]_vars

\* two calls found the same object expired and each has its own grant
\* request in flight for it
C11_Witness ==
    \E p \in Procs : \E q \in Procs \ {p} :
        /\ req[p].pc = "refreshing" /\ req[q].pc = "refreshing"
        /\ req[p].cred = req[q].cred
        /\ req[p].sawExpired /\ req[q].sawExpired
        /\ req[p].serial # req[q].serial

\* ------------------------------------------------------------------------
\* C12  spotipy: while a call sleeps out the Retry-After of a 429, the gate
\* is closed, and no other call that comes to the gate check sends its
\* first HTTP call, also when the 429 backoffs of several calls overlap.
\* ------------------------------------------------------------------------
\* p is in `await asyncio.sleep(int(response.headers["Retry-After"]))`
InBackoff(p) == req[p].pc = "sleep" /\ req[p].sleepKind = "429"
\* q comes to `if self._request_lock.is_set() is False` and goes on to send
FindsGateOpen(q) ==
    /\ req[q].pc \in {"idle", "creating", "refreshing"}
    /\ req'[q].pc = "http"

C12_GateShutDuringBackoff ==
    /\ [](impl = "spotipy" => \A p \in Procs : InBackoff(p) => ~request_lock)
    /\ [][impl = "spotipy" =>
            \A q \in Procs : FindsGateOpen(q) =>
                \A p \in Procs \ {q} : ~InBackoff(p)]_vars

\* ------------------------------------------------------------------------
\* C13  Against a server that holds `total` items and answers a page
\* request with items[offset : offset + limit], each get_all_* helper
\* returns exactly the server's list, for every total >= 0.
\* ------------------------------------------------------------------------
C13_GetAllReturnsTheList ==
    (op.pc = "done" /\ op.name \in GetAllHelpers) => op.items = Items(op.total)

\* a listing whose last page is partial: 101 tracks, fetched in three pages
C13_Witness ==
    /\ op.pc = "done"
    /\ op.name = "get_all_album_tracks"
    /\ op.total = 101
    /\ Len(op.offsets) = 3
    /\ Len(op.items) = 101

\* ------------------------------------------------------------------------
\* C14  get_full_album returns an album whose tracks are all `total` tracks
\* of the album, each once and in order: the pages at offsets 50, 100, ...
\* are each fetched once after the embedded first page.
\* ------------------------------------------------------------------------
C14_FullAlbumHasAllTracks ==
    (op.pc = "done" /\ op.name = "get_full_album") =>
        /\ op.items = Items(op.total)
        /\ op.offsets = [k \in 1..(CeilDiv(op.total, 50) - 1) |-> 50 * k]

\* ------------------------------------------------------------------------
\* C15  A batch endpoint called with more ids than its maximum (20 albums;
\* 50 artists, tracks, episodes, shows; 100 audio features) raises
\* ValueError and leaves the session, the token endpoint and the API
\* server untouched; called with at most the maximum it goes on to request().
\* ------------------------------------------------------------------------
DocumentedMax(endpoint) ==
    CASE endpoint = "get_multiple_albums" -> 20
      [] endpoint \in {"get_multiple_artists", "get_multiple_tracks",
                       "get_multiple_episodes", "get_multiple_shows"} -> 50
      [] endpoint = "get_multiple_tracks_audio_features" -> 100

C15_TooManyIdsRaisesLocally ==
    [][\A p \in Procs : Starts(p) =>
          IF op'.n > DocumentedMax(op'.name)
          THEN /\ req'[p].pc = "done"
               /\ req'[p].result.kind = "raise"
               /\ req'[p].result.exc = "ValueError"
               /\ UNCHANGED <<session, sessionsCreated, credentials, grants,
                              httpCalls, calls>>
          ELSE /\ req'[p].pc \in {"creating", "refreshing", "gate", "http"}
               /\ calls' = calls + 1
               /\ grants' + httpCalls' = grants + httpCalls + 1
       ]_vars

\* 101 ids for the audio features raised ValueError in a client that has
\* no session, has made no token call and no API call
C15_Witness ==
    /\ op.name = "get_multiple_tracks_audio_features"
    /\ op.n = 101
    /\ \E p \in Procs : Raised(p, "ValueError", 0)
    /\ session = None /\ sessionsCreated = 0
    /\ grants = 0 /\ httpCalls = 0

\* ------------------------------------------------------------------------
\* C16  is_expired() returns true exactly when now - last_authorized_time
\* >= expires_in: true when the difference equals expires_in or exceeds it
\* by a second, false a second before; the call changes no field of any
\* credentials object and reaches neither the token endpoint, the API
\* server nor the session.
\* ------------------------------------------------------------------------
IsExpiredReturns(c) == op'.name = "is_expired" /\ op'.cred = c /\ op' # op

C16_ExpiredFromTheBoundaryOn ==
    [][\A c \in CredIds : IsExpiredReturns(c) =>
          LET age == now - creds[c].last_authorized_time IN
          /\ op'.result = (age >= creds[c].expires_in)
          /\ age = creds[c].expires_in => op'.result = TRUE
          /\ age = creds[c].expires_in + 1 => op'.result = TRUE
          /\ age = creds[c].expires_in - 1 => op'.result = FALSE
          /\ UNCHANGED <<creds, lastGrant, credentials, session, sessionsCreated,
                         grants, httpCalls, now>>
       ]_vars

\* asked exactly expires_in seconds (3600) after the token was taken
C16_Witness ==
    /\ op.name = "is_expired"
    /\ creds[op.cred].expires_in = TokenLifetime
    /\ now - creds[op.cred].last_authorized_time = TokenLifetime
    /\ op.result = TRUE

\* ------------------------------------------------------------------------
\* C17  UserCredentials.refresh posts the stored refresh token, and after a
\* successful refresh the object holds the refresh token of the response
\* when the response has one, and the one it held before otherwise.
\* ------------------------------------------------------------------------
\* p posts the grant request of refresh() on a UserCredentials object
PostsUserRefresh(p) ==
    /\ req[p].pc # "refreshing" /\ req'[p].pc = "refreshing"
    /\ creds[req'[p].cred].kind = "user"
\* p has read a grant, not an error, in answer to that request
UserRefreshSucceeds(p) ==
    /\ req[p].pc = "refreshing" /\ req'[p].pc # "refreshing"
    /\ creds[req[p].cred].kind = "user"
    /\ req'[p].reply.error = Missing

C17_RefreshTokenFollowsResponse ==
    [][\A p \in Procs :
          /\ PostsUserRefresh(p) =>
                req'[p].posted = creds[req'[p].cred].refresh_token
          /\ UserRefreshSucceeds(p) =>
                creds'[req[p].cred].refresh_token =
                    IF req'[p].reply.refresh_token # None
                    THEN req'[p].reply.refresh_token
                    ELSE creds[req[p].cred].refresh_token
       ]_vars

\* ------------------------------------------------------------------------
\* C18  ClientCredentials.from_client_details returns a credentials object
\* exactly when the token response has no `error` key. When it has one, the
\* call raises AuthenticationError with the error code and the description
\* of the response, the client stores no credentials object, and the
\* request that needed the token makes no API call.
\* ------------------------------------------------------------------------
\* p reads the answer to the POST of from_client_details
CreationAnswered(p) == req[p].pc = "creating" /\ req'[p].pc # "creating"

C18_ErrorFieldMeansNoCredentials ==
    [][\A p \in Procs : CreationAnswered(p) =>
          IF req'[p].reply.error = Missing
          THEN /\ credentials' = req[p].serial
               /\ creds'[credentials'].kind = "client"
               /\ creds'[credentials'].access_token = req[p].serial
               /\ req'[p].result.exc # "AuthenticationError"
          ELSE /\ req'[p].pc = "done"
               /\ req'[p].result.kind = "raise"
               /\ req'[p].result.exc = "AuthenticationError"
               /\ req'[p].result.error = req'[p].reply.error
               /\ req'[p].result.description = req'[p].reply.error_description
               /\ UNCHANGED <<credentials, creds, httpCalls>>
               /\ req'[p].callId = 0
               /\ req'[p].log = <<>>
       ]_vars

\* the first call of a client was answered `invalid_client` by the token
\* endpoint: AuthenticationError, no credentials stored, no API call made
C18_Witness ==
    \E p \in Procs :
        /\ Raised(p, "AuthenticationError", 0)
        /\ req[p].cred = None
        /\ Result(p).error = "invalid_client"
        /\ Result(p).description = "Invalid client"
        /\ credentials = None
        /\ httpCalls = 0

\* ------------------------------------------------------------------------
\* C19  A spotipy HTTPClient built without a session has no session before
\* its first request and makes at most one over any sequential or concurrent
\* requests; close() closes that session, and does nothing in a client that
\* never made one.
\* ------------------------------------------------------------------------
\* close() is called
Closes == op'.name = "close" /\ (op' # op \/ closed' # closed)

C19_OneLazySession ==
    /\ [](impl = "spotipy" =>
            /\ sessionsCreated <= 1
            /\ calls = 0 => (session = None /\ sessionsCreated = 0)
            /\ session # None => session = sessionsCreated
            /\ closed \subseteq {session} \ {None})
    /\ [][(impl = "spotipy" /\ Closes) =>
            /\ UNCHANGED <<session, sessionsCreated>>
            /\ IF session = None THEN closed' = {} /\ closed = {}
               ELSE closed' = {session}]_vars

\* two calls went through one session, which close() then closed
C19_Witness ==
    /\ impl = "spotipy"
    /\ \A p \in {"p1", "p2"} : req[p].result.kind = "return"
    /\ httpCalls = 2
    /\ sessionsCreated = 1
    /\ op.name = "close"
    /\ closed = {session}

\* ------------------------------------------------------------------------
\* C20  The get-several methods of Client return a mapping with an entry
\* for every id supplied, in which the id at position i maps to the record
\* built from element i of the response list, or to None when that element
\* is null.
\* ------------------------------------------------------------------------
C20_IdsMapToTheirRecords ==
    (op.pc = "done" /\ op.name \in SeveralMethods) =>
        /\ DOMAIN op.result = {op.ids[i] : i \in 1..Len(op.ids)}
        /\ \A i \in 1..Len(op.ids) :
              op.result[op.ids[i]] =
                  IF op.response[i].json = "null" THEN [class |-> "None", id |-> None]
                  ELSE [class |-> RecordClass(op.name), id |-> op.response[i].id]

\* three ids, one of them unknown to the server and one asked for twice
C20_Witness ==
    /\ op.pc = "done" /\ op.name = "get_tracks"
    /\ Len(op.ids) = 3
    /\ op.ids[1] = op.ids[3] /\ op.ids[2] # op.ids[1]
    /\ op.response[2] = NullData
    /\ op.result[op.ids[1]].class = "Track"
    /\ op.result[op.ids[2]].class = "None"

\* ------------------------------------------------------------------------
\* C21  One call of request makes at least 1 and at most 4 HTTP attempts
\* (at most 3 in aiospotify) whatever the outcomes of the attempts, and a
\* 429 response uses up an attempt like any other retried outcome: the loop
\* index is the number of attempts made before, of whatever outcome.  A call
\* that the token endpoint refused never reaches its first attempt.
\* ------------------------------------------------------------------------
\* the attempts of the call of p that the API server has received
AttemptsMade(p) == Attempts(Log(p)) + (IF req[p].pc = "http" THEN 1 ELSE 0)

C21_AttemptsWithinBudget ==
    \A p \in RetryProcs :
        /\ AttemptsMade(p) <= (IF impl = "spotipy" THEN 4 ELSE 3)
        /\ httpCalls = AttemptsMade(p)
        /\ AttemptsMade(p) >= 1 => req[p].tries = AttemptsMade(p) - 1
        /\ (req[p].pc = "done" /\ Result(p).exc # "AuthenticationError")
              => AttemptsMade(p) >= 1

\* spotipy: two 429 responses, a 503 and a connection reset, in any order,
\* have used up the four attempts
C21_Witness ==
    /\ impl = "spotipy"
    /\ \E p \in RetryProcs :
        /\ req[p].pc = "done"
        /\ Attempts(Log(p)) = 4
        /\ Cardinality({i \in 1..Len(Log(p)) :
                          Log(p)[i].kind = "resp" /\ Log(p)[i].n = 429}) = 2
        /\ \E i \in 1..Len(Log(p)) : Log(p)[i].kind = "resp" /\ Log(p)[i].n = 503
        /\ \E i \in 1..Len(Log(p)) : Log(p)[i].kind = "oserror"

\* ------------------------------------------------------------------------
\* C22  A 500, 502 or 503 response on attempt index i, counted from 0 over
\* all the attempts of the call, is followed by a sleep of exactly 1 + 2*i
\* seconds, and the attempt after it, if any, has index i + 1.
\* ------------------------------------------------------------------------
C22_ServerErrorBackoff ==
    \A p \in Procs : \A k \in 1..Len(Log(p)) :
        (Log(p)[k].kind = "resp" /\ Log(p)[k].n \in {500, 502, 503}) =>
            LET i == AttemptsBefore(Log(p), k) IN
            /\ k < Len(Log(p))
            /\ Log(p)[k + 1] = [kind |-> "sleep", n |-> 1 + 2 * i, id |-> 0, ra |-> None]
            /\ Len(Log(p)) > k + 1 =>
                  /\ IsAttempt(Log(p)[k + 2])
                  /\ AttemptsBefore(Log(p), k + 2) = i + 1
            /\ req[p].pc \in {"sleep", "http"} /\ Len(Log(p)) = k + 1 =>
                  req[p].tries = (IF req[p].pc = "sleep" THEN i ELSE i + 1)

\* a 429, then a 502 on attempt index 1 slept 3 seconds, then a 500 on
\* attempt index 2 slept 5 seconds
C22_Witness ==
    \E p \in Procs :
        /\ Len(Log(p)) >= 6
        /\ Log(p)[1].kind = "resp" /\ Log(p)[1].n = 429
        /\ Log(p)[3].kind = "resp" /\ Log(p)[3].n = 502
        /\ Log(p)[4].kind = "sleep" /\ Log(p)[4].n = 3
        /\ Log(p)[5].kind = "resp" /\ Log(p)[5].n = 500
        /\ Log(p)[6].kind = "sleep" /\ Log(p)[6].n = 5

\* ------------------------------------------------------------------------
\* C23  A get_all_* helper fetches its pages at the offsets 0, P, 2P, ...,
\* (ceil(total/P) - 1) * P, in this order and each once (P = 100 for
\* playlist items, 50 otherwise), where total is what the first page
\* reported, whatever the later pages report; with total <= P it makes one
\* fetch.
\* ------------------------------------------------------------------------
DocumentedPageSize(h) == IF h = "get_all_playlist_items" THEN 100 ELSE 50
\* the number of pages of P items that hold `total` items
PagesOf(total, P) == CHOOSE n \in 0..total : n * P >= total /\ (n - 1) * P < total

C23_OffsetsInOrder ==
    op.name \in GetAllHelpers =>
        LET P == DocumentedPageSize(op.name)
            total == op.reported[1]
            fetches == IF total <= P THEN 1 ELSE PagesOf(total, P) IN
        /\ \A k \in 1..Len(op.offsets) : op.offsets[k] = (k - 1) * P
        /\ Len(op.offsets) <= fetches
        /\ op.pc = "done" => Len(op.offsets) = fetches

\* 201 playlist items at first, another number by the third page
C23_Witness ==
    /\ op.pc = "done"
    /\ op.name = "get_all_playlist_items"
    /\ op.reported[1] = 201
    /\ op.reported[3] # 201
    /\ op.offsets = <<0, 100, 200>>

\* ------------------------------------------------------------------------
\* C24  aiospotify: a response whose status is 500 or above but not 500,
\* 502 or 503 raises SpotifyServerError on that attempt, and the call makes
\* no further HTTP attempt.
\* ------------------------------------------------------------------------
C24_AiospotifyOtherServerErrorRaises ==
    impl = "aiospotify" =>
        \A p \in Procs : \A i \in 1..Len(Log(p)) :
            (/\ Log(p)[i].kind = "resp"
             /\ Log(p)[i].n >= 500
             /\ Log(p)[i].n \notin {500, 502, 503})
            => /\ req[p].pc = "done"
               /\ Raised(p, "SpotifyServerError", Log(p)[i].id)
               /\ \A j \in (i + 1)..Len(Log(p)) : ~IsAttempt(Log(p)[j])

\* ------------------------------------------------------------------------
\* C25  spotipy: whenever a 429 response has cleared the gate, the gate is
\* set again later, and every call waiting at the gate goes on; also when
\* the 429 has no Retry-After header and when the sleeping call is cancelled.
\* ------------------------------------------------------------------------
C25_GateSetAgain ==
    /\ (~request_lock) ~> request_lock
    /\ \A p \in Procs : (req[p].pc = "gate") ~> (req[p].pc # "gate")

\* ------------------------------------------------------------------------
\* C26  request never sleeps after its last permitted attempt: every sleep
\* after a 429 or a 500/502/503 response is followed by another HTTP attempt
\* of the call before the call returns or raises.
\* ------------------------------------------------------------------------
C26_NoSleepAfterLastAttempt ==
    \A p \in Procs :
        req[p].pc = "done" =>
            \A i \in 2..Len(Log(p)) :
                (Log(p)[i].kind = "sleep" /\ Log(p)[i - 1].kind = "resp")
                => \E j \in (i + 1)..Len(Log(p)) : IsAttempt(Log(p)[j])

\* ------------------------------------------------------------------------
\* C27  A call given an unexpired credentials hint makes no call to the
\* token endpoint and leaves the client-level credentials slot as it was,
\* also when it is the first call made through the client.
\* ------------------------------------------------------------------------
C27_UnexpiredHintNoTokenCall ==
    [][\A p \in Procs :
          (/\ req'[p] # req[p]
           /\ req[p].pc \in {"idle", "creating"}
           /\ req'[p].hint # None
           /\ ~Expired(creds[req'[p].hint], now))
          => /\ grants' = grants
             /\ credentials' = credentials]_vars

\* ------------------------------------------------------------------------
\* C28  When refresh() of ClientCredentials or UserCredentials is answered
\* with a document that has an `error` field, it raises AuthenticationError
\* and leaves access_token, token_type, expires_in and the last-authorized
\* time of the object as they were, so the object is expired as before.
\* ------------------------------------------------------------------------
RefreshAnsweredStep(p) == req[p].pc = "refreshing" /\ req'[p].pc # "refreshing"

C28_FailedRefreshChangesNothing ==
    [][\A p \in Procs :
          (RefreshAnsweredStep(p) /\ req'[p].reply.error # Missing) =>
              LET c == req[p].cred IN
              /\ req'[p].pc = "done"
              /\ req'[p].result.kind = "raise"
              /\ req'[p].result.exc = "AuthenticationError"
              /\ req'[p].result.error = req'[p].reply.error
              /\ creds'[c].access_token = creds[c].access_token
              /\ creds'[c].token_type = creds[c].token_type
              /\ creds'[c].expires_in = creds[c].expires_in
              /\ creds'[c].last_authorized_time = creds[c].last_authorized_time
              /\ creds' = creds
              /\ lastGrant' = lastGrant
              /\ Expired(creds[c], now) /\ Expired(creds'[c], now')]_vars

\* a refresh was refused with invalid_grant: the call raised and the object
\* still holds the token it had, expired
C28_Witness ==
    \E p \in Procs :
        /\ req[p].pc = "done"
        /\ Result(p).exc = "AuthenticationError"
        /\ req[p].cred # None
        /\ req[p].sawExpired
        /\ req[p].reply.error = "invalid_grant"
        /\ creds[req[p].cred].access_token = req[p].cred
        /\ Expired(creds[req[p].cred], now)

\* ------------------------------------------------------------------------
\* C29  A paginated endpoint called with an integer limit outside 1..50
\* (1..100 for playlist items and recommendations), 0 and negative values
\* included, raises ValueError before any HTTP call is made.
\* ------------------------------------------------------------------------
DocumentedMaxLimit(endpoint) ==
    IF endpoint \in {"get_playlist_items", "get_recommendations"} THEN 100 ELSE 50

C29_LimitOutOfRangeRaises ==
    [][\A p \in Procs :
          (Starts(p) /\ (op'.limit < 1 \/ op'.limit > DocumentedMaxLimit(op'.name))) =>
              /\ req'[p].pc = "done"
              /\ req'[p].result.kind = "raise"
              /\ req'[p].result.exc = "ValueError"
              /\ httpCalls' = httpCalls
              /\ grants' = grants]_vars

\* ------------------------------------------------------------------------
\* C30  Every Route built by an endpoint method resolves to a URL that is
\* the base URL https://api.spotify.com/v1 followed by a path that begins
\* with "/", for every endpoint method and every id.
\* ------------------------------------------------------------------------
C30_UrlIsBaseThenSlash ==
    op.pc = "route" =>
        /\ Len(op.url) >= 2
        /\ op.url[1] = "https://api.spotify.com/v1"
        /\ op.url[2] = "/"

====
